---- MODULE Spec2Model ----
(***************************************************************************)
(* A model of clawdscan (src/clawdscan.py): analyze_session, which folds   *)
(* the lines of one session JSONL file into a statistics record, and       *)
(* classify_session, which maps such a record and an instant "now" to an   *)
(* ordered list of health labels; and the commands built on them:         *)
(* cmd_scan (the corpus summary), cmd_disk (the size percentiles),         *)
(* cmd_history (the weekly trend) and cmd_clean (the archival of matching  *)
(* sessions).  Each has its own specification: Spec and SpecClassify for   *)
(* one session, SpecScan, SpecDisk, SpecHistory and SpecClean for the      *)
(* commands.                                                               *)
(*                                                                         *)
(* Instants are whole seconds.  A datetime is a record: kind "aware" (it   *)
(* carries a UTC offset and t is its UTC instant), kind "naive" (no zone;  *)
(* t is its wall-clock reading) or kind "None".  Python refuses to order   *)
(* or subtract an aware and a naive datetime (TypeError), and the model    *)
(* keeps that.  Labels are written without their emoji prefix.             *)
(***************************************************************************)
EXTENDS Integers, Sequences, FiniteSets, TLC

VARIABLES
    pc,      \* where the pipeline or the command stands
    file,    \* the lines of the session file, chosen before it is read
    pos,     \* number of lines analyze_session has consumed
    stats,   \* the stats dict of analyze_session
    now,     \* the instant handed to classify_session
    result,  \* what classify_session gave: [raised, labels]
    corpus,  \* the session files a command finds on disk, in iterdir order
    scan,    \* the locals of cmd_scan
    disk,    \* the locals of cmd_disk
    hist,    \* the locals of cmd_history
    clean    \* the locals of cmd_clean and what it did to the disk

vars == <<pc, file, pos, stats, now, result, corpus, scan, disk, hist, clean>>

(* the variables of one session's pipeline, and those of the commands *)
sessionvars == <<file, pos, stats, result>>
cmdvars == <<corpus, scan, disk, hist, clean>>

(* the locals of a command that is not the one being run *)
NotRun == [run |-> FALSE]

-----------------------------------------------------------------------------
(* Thresholds, src/clawdscan.py lines 43-46 *)

BLOAT_SIZE_BYTES == 1 * 1024 * 1024
BLOAT_MSG_COUNT == 300
STALE_DAYS == 7
ZOMBIE_HOURS == 48

(* timedelta(hours=1) and timedelta(days=1), in seconds *)
HOUR == 60 * 60
DAY == 24 * HOUR

-----------------------------------------------------------------------------
(* datetime values *)

None == [kind |-> "None", t |-> 0]
Aware(t) == [kind |-> "aware", t |-> t]
Naive(t) == [kind |-> "naive", t |-> t]

(* `a < b` / `a > b` / `a - b` on two datetimes raise TypeError when one is *)
(* aware and the other naive.                                              *)
Mixed(a, b) == a.kind # b.kind

-----------------------------------------------------------------------------
(* classify_session, lines 194-238.  `now` is an aware instant (cmd_scan   *)
(* passes datetime.now(timezone.utc)), given here as its seconds.          *)

(* the size rule with >= in place of > *)
SizeLabelGE(stats_) ==
    IF stats_.size_bytes >= BLOAT_SIZE_BYTES * 5 THEN <<"mega-bloat">>
    ELSE IF stats_.size_bytes >= BLOAT_SIZE_BYTES THEN <<"bloated">>
    ELSE <<>>

(* lines 198-202 *)
SizeLabel(stats_) ==
    IF stats_.size_bytes > BLOAT_SIZE_BYTES * 5 THEN <<"mega-bloat">>
    ELSE IF stats_.size_bytes > BLOAT_SIZE_BYTES THEN <<"bloated">>
    ELSE <<>>

(* the message rule with `if` in place of `elif` *)
MsgLabelNoElse(stats_) ==
    (IF stats_.messages > BLOAT_MSG_COUNT * 3 THEN <<"msg-overflow">> ELSE <<>>)
    \o (IF stats_.messages > BLOAT_MSG_COUNT THEN <<"msg-heavy">> ELSE <<>>)

(* lines 204-208 *)
MsgLabel(stats_) ==
    IF stats_.messages > BLOAT_MSG_COUNT * 3 THEN <<"msg-overflow">>
    ELSE IF stats_.messages > BLOAT_MSG_COUNT THEN <<"msg-heavy">>
    ELSE <<>>

(* the fallback the other way round: mtime or last_timestamp *)
LastActivityMtimeFirst(stats_) ==
    IF stats_.mtime # None THEN stats_.mtime ELSE stats_.last_timestamp

(* stats["last_timestamp"] or stats["mtime"]: a datetime is always truthy *)
LastActivity(stats_) ==
    IF stats_.last_timestamp # None THEN stats_.last_timestamp ELSE stats_.mtime

(* `now - last_activity` raises on a naive last_activity *)
StaleRaises(stats_) ==
    LastActivity(stats_) # None /\ LastActivity(stats_).kind = "naive"

(* a staleness rule that looks at the events only, never at the file *)
StaleLabelEventsOnly(stats_, now_) ==
    IF stats_.last_timestamp = None THEN <<>>
    ELSE LET age == now_ - stats_.last_timestamp.t IN
         IF age > STALE_DAYS * 4 * DAY THEN <<"ancient">>
         ELSE IF age > STALE_DAYS * DAY THEN <<"stale">>
         ELSE <<>>

(* lines 212-217 *)
StaleLabel(stats_, now_) ==
    IF LastActivity(stats_) = None THEN <<>>
    ELSE LET age == now_ - LastActivity(stats_).t IN
         IF age > STALE_DAYS * 4 * DAY THEN <<"ancient">>
         ELSE IF age > STALE_DAYS * DAY THEN <<"stale">>
         ELSE <<>>

(* a creation instant that falls back further, to mtime *)
ZombieCreatedAnyInstant(stats_) ==
    IF stats_.created # None THEN stats_.created
    ELSE IF stats_.first_timestamp # None THEN stats_.first_timestamp
    ELSE stats_.mtime

(* stats["created"] or stats["first_timestamp"] *)
ZombieCreated(stats_) ==
    IF stats_.created # None THEN stats_.created ELSE stats_.first_timestamp

(* `now - created` raises on a naive created *)
ZombieRaises(stats_) ==
    /\ stats_.messages <= 2
    /\ ZombieCreated(stats_).kind = "naive"

(* lines 220-223 *)
ZombieLabel(stats_, now_) ==
    IF /\ stats_.messages <= 2
       /\ ZombieCreated(stats_) # None
       /\ now_ - ZombieCreated(stats_).t > ZOMBIE_HOURS * HOUR
    THEN <<"zombie">>
    ELSE <<>>

(* lines 226-229 *)
CompactionLabel(stats_) ==
    IF stats_.compactions > 10 THEN <<"over-compacted">>
    ELSE IF stats_.compactions > 3 THEN <<"compacted">>
    ELSE <<>>

(* lines 232-233 *)
ErrorLabel(stats_) ==
    IF stats_.errors > 5 THEN <<"parse-errors">> ELSE <<>>

(* the rules with the warning tier (parse-errors) ahead of the info tier *)
RuleLabelsSeverityFirst(stats_, now_) ==
    SizeLabel(stats_) \o MsgLabel(stats_) \o StaleLabel(stats_, now_)
        \o ErrorLabel(stats_) \o ZombieLabel(stats_, now_)
        \o CompactionLabel(stats_)

(* the labels the six rules append, in the order the code evaluates them *)
RuleLabels(stats_, now_) ==
    SizeLabel(stats_) \o MsgLabel(stats_) \o StaleLabel(stats_, now_)
        \o ZombieLabel(stats_, now_) \o CompactionLabel(stats_)
        \o ErrorLabel(stats_)

(* the function's outcome: the returned list, or the TypeError it raises *)
classify_session(stats_, now_) ==
    IF StaleRaises(stats_) \/ ZombieRaises(stats_)
    THEN [raised |-> TRUE, labels |-> <<>>]
    ELSE [raised |-> FALSE,
          labels |-> IF RuleLabels(stats_, now_) = <<>>
                     THEN <<"healthy">>
                     ELSE RuleLabels(stats_, now_)]

-----------------------------------------------------------------------------
(* The content of a session file: one record per line.                     *)
(*   shape  "blank"     empty once stripped (line 107)                     *)
(*          "garbage"   json.loads raises JSONDecodeError (line 111)       *)
(*          "nonobject" json.loads succeeds on a number, string, list,     *)
(*                      null ...: a value with no .get (line 115)          *)
(*          "object"    a JSON object                                      *)
(* and for an object the fields analyze_session reads.  A tool name, a     *)
(* model id or a custom type is a string, ABSENT (key missing) or          *)
(* UNHASHABLE (a JSON list or object, which no Counter or set accepts).    *)

ABSENT == "<absent>"
UNHASHABLE == "<unhashable>"

(* the "timestamp" field of an entry *)
TsAbsent == [form |-> "absent", t |-> 0, off |-> 0]        \* missing, null, ""
TsNonString == [form |-> "nonstring", t |-> 0, off |-> 0]  \* a number, a list
TsGarbage == [form |-> "garbage", t |-> 0, off |-> 0]      \* "yesterday"
TsZ(t) == [form |-> "Z", t |-> t, off |-> 0]               \* wall clock t, "Z"
TsOffset(t, off) == [form |-> "offset", t |-> t, off |-> off] \* t, "+hh:mm"
TsNoZone(t) == [form |-> "nozone", t |-> t, off |-> 0]     \* t, no zone

(* content blocks of a message; a content that is no list is skipped by     *)
(* line 146 like an empty list and is written <<>>                         *)
ToolUse(name) == [btype |-> "tool_use", name |-> name]
TextBlock == [btype |-> "text", name |-> ABSENT]
NonDictBlock == [btype |-> "nondict", name |-> ABSENT]

Blank == [shape |-> "blank", type |-> ABSENT, ts |-> TsAbsent, msg |-> "absent",
          role |-> "", content |-> <<>>, toolName |-> ABSENT,
          modelId |-> ABSENT, customType |-> ABSENT, data |-> "absent"]
Garbage == [Blank EXCEPT !.shape = "garbage"]
NonObject == [Blank EXCEPT !.shape = "nonobject"]
Entry(type, ts) == [Blank EXCEPT !.shape = "object", !.type = type, !.ts = ts]
Message(role, ts) ==
    [Entry("message", ts) EXCEPT !.msg = "dict", !.role = role]

-----------------------------------------------------------------------------
(* analyze_session, lines 78-191 *)

(* no exception: the value of an outcome's exc, and of error_detail unset *)
NoExc == "none"

ToolNames == {"a", "b", "unknown"}
CustomTypes == {"model-snapshot", "unknown"}

(* the stats dict as built at lines 80-101 *)
InitStats(size, mtime) ==
    [size_bytes |-> size, mtime |-> mtime,
     messages |-> 0, user_messages |-> 0, assistant_messages |-> 0,
     tool_calls |-> 0, compactions |-> 0, model_changes |-> 0,
     models_used |-> {}, tools_used |-> [n \in ToolNames |-> 0],
     first_timestamp |-> None, last_timestamp |-> None, created |-> None,
     errors |-> 0, custom_types |-> [c \in CustomTypes |-> 0],
     error_detail |-> NoExc]

(* lines 116-122: datetime.fromisoformat(ts_str.replace("Z", "+00:00")),   *)
(* None when the field is falsy, has no .replace or is not ISO text.       *)
ParseTimestamp(ts) ==
    IF ts.form = "Z" THEN Aware(ts.t)
    ELSE IF ts.form = "offset" THEN Aware(ts.t - ts.off)
    ELSE IF ts.form = "nozone" THEN Naive(ts.t)
    ELSE None

(* An intermediate outcome: the stats so far and the exception, if any,    *)
(* that is propagating to the handler at line 184.                         *)
Ok(s) == [s |-> s, exc |-> NoExc]
Raise(s, e) == [s |-> s, exc |-> e]
Raised(r) == r.exc # NoExc

(* lines 124-128 *)
UpdateTimestamps(s, ts) ==
    IF ts = None THEN Ok(s)
    ELSE IF s.first_timestamp # None /\ Mixed(ts, s.first_timestamp)
    THEN Raise(s, "TypeError")
    ELSE LET s1 == IF s.first_timestamp = None \/ ts.t < s.first_timestamp.t
                   THEN [s EXCEPT !.first_timestamp = ts] ELSE s
         IN IF s1.last_timestamp # None /\ Mixed(ts, s1.last_timestamp)
            THEN Raise(s1, "TypeError")
            ELSE Ok(IF s1.last_timestamp = None \/ ts.t > s1.last_timestamp.t
                    THEN [s1 EXCEPT !.last_timestamp = ts] ELSE s1)

(* lines 150-152 and 155-157: the counter first, the Counter key second *)
CountTool(s, name) ==
    LET s1 == [s EXCEPT !.tool_calls = @ + 1]
        key == IF name = ABSENT THEN "unknown" ELSE name
    IN IF name = UNHASHABLE THEN Raise(s1, "TypeError")
       ELSE Ok([s1 EXCEPT !.tools_used[key] = @ + 1])

(* lines 146-152: the loop over the content blocks of an assistant message *)
RECURSIVE CountBlocks(_, _)
CountBlocks(s, blocks) ==
    IF blocks = <<>> THEN Ok(s)
    ELSE IF Head(blocks).btype # "tool_use" THEN CountBlocks(s, Tail(blocks))
    ELSE LET r == CountTool(s, Head(blocks).name)
         IN IF Raised(r) THEN r ELSE CountBlocks(r.s, Tail(blocks))

(* lines 136-157 *)
MessageEntry(s, line) ==
    LET s1 == [s EXCEPT !.messages = @ + 1] IN
    IF line.msg = "nondict" THEN Raise(s1, "AttributeError")
    ELSE IF line.msg = "absent" THEN Ok(s1)
    ELSE IF line.role = "user" THEN Ok([s1 EXCEPT !.user_messages = @ + 1])
    ELSE IF line.role = "assistant"
    THEN CountBlocks([s1 EXCEPT !.assistant_messages = @ + 1], line.content)
    ELSE IF line.role = "toolResult" THEN CountTool(s1, line.toolName)
    ELSE Ok(s1)

(* lines 165-166 and 175-176 *)
AddModel(s, id) ==
    IF id = ABSENT THEN Ok(s)
    ELSE IF id = UNHASHABLE THEN Raise(s, "TypeError")
    ELSE Ok([s EXCEPT !.models_used = @ \cup {id}])

(* lines 168-176 *)
CustomEntry(s, line) ==
    LET ct == IF line.customType = ABSENT THEN "unknown" ELSE line.customType
    IN IF ct = UNHASHABLE THEN Raise(s, "TypeError")
       ELSE LET s1 == [s EXCEPT !.custom_types[ct] = @ + 1] IN
            IF ct # "model-snapshot" THEN Ok(s1)
            ELSE IF line.data = "nondict" THEN Raise(s1, "AttributeError")
            ELSE AddModel(s1, line.modelId)

(* lines 130-182: the dispatch on entry_type *)
Dispatch(s, line, ts) ==
    IF line.type = "session" THEN Ok([s EXCEPT !.created = ts])
    ELSE IF line.type = "message" THEN MessageEntry(s, line)
    ELSE IF line.type = "compaction" THEN Ok([s EXCEPT !.compactions = @ + 1])
    ELSE IF line.type = "model_change"
    THEN AddModel([s EXCEPT !.model_changes = @ + 1], line.modelId)
    ELSE IF line.type = "custom" THEN CustomEntry(s, line)
    ELSE Ok(s)

(* lines 106-182: one iteration of the loop over the lines *)
JsonLine(s, line) ==
    IF line.shape = "blank" THEN Ok(s)
    ELSE IF line.shape = "garbage" THEN Ok([s EXCEPT !.errors = @ + 1])
    ELSE IF line.shape = "nonobject" THEN Raise(s, "AttributeError")
    ELSE LET r == UpdateTimestamps(s, ParseTimestamp(line.ts))
         IN IF Raised(r) THEN r ELSE Dispatch(r.s, line, ParseTimestamp(line.ts))

(* a handler that records the error but loses the counters gathered so far *)
HandlerFreshStats(s, e) ==
    [InitStats(s.size_bytes, s.mtime) EXCEPT !.errors = 1, !.error_detail = e]

(* lines 184-186: `except Exception` around the whole read; error_detail   *)
(* is str(e), kept here as the type of e                                   *)
Handler(s, e) == [s EXCEPT !.errors = @ + 1, !.error_detail = e]

-----------------------------------------------------------------------------
(* Bounds and inputs *)

MaxLines == 3       \* longest session file, in lines
Slack == 1          \* how far past each threshold the sampled inputs reach

RefNow == 100 * DAY
Nows == {RefNow, RefNow + 10 * DAY, RefNow + 30 * DAY}

(* four event instants: 30 days, 10 days, 3 days and 1 hour before RefNow *)
T0 == RefNow - 30 * DAY
T1 == RefNow - 10 * DAY
T2 == RefNow - 3 * DAY
T3 == RefNow - HOUR
MTime == Aware(RefNow - 2 * HOUR)

Lines ==
    { Blank, Garbage, NonObject,
      Entry("session", TsZ(T1)),
      Entry("session", TsNoZone(T2)),
      Message("user", TsOffset(T2 + HOUR, HOUR)),
      [Message("user", TsGarbage) EXCEPT !.content = <<ToolUse("b")>>],
      [Message("assistant", TsZ(T3)) EXCEPT
          !.content = <<ToolUse("a"), TextBlock, NonDictBlock, ToolUse(ABSENT)>>],
      [Message("assistant", TsAbsent) EXCEPT
          !.content = <<ToolUse(UNHASHABLE), ToolUse("b")>>],
      [Message("toolResult", TsNonString) EXCEPT !.toolName = "a"],
      [Entry("message", TsAbsent) EXCEPT !.msg = "nondict"],
      Entry("compaction", TsAbsent),
      [Entry("model_change", TsAbsent) EXCEPT !.modelId = "m1"],
      [Entry("custom", TsAbsent) EXCEPT
          !.customType = "model-snapshot", !.data = "dict", !.modelId = "m2"],
      Entry("telemetry", TsZ(T0)) }

Files == UNION {[1..n -> Lines] : n \in 0..MaxLines}

(* st_size of the file: 0 for the empty file, else a nominal 64 bytes a line *)
FileSize(f) == 64 * Len(f)

(* Inputs of classify_session alone: statistics whose counters, sizes and  *)
(* ages sit at each threshold and up to Slack past it.  The timestamps are *)
(* as analyze_session leaves them: all None, or first <= last of one kind  *)
(* with created None or one of the event instants.                         *)
Around(thr) == thr..(thr + Slack)
SampleSizes == Around(BLOAT_SIZE_BYTES) \cup Around(BLOAT_SIZE_BYTES * 5)
SampleMessages ==
    Around(2) \cup Around(BLOAT_MSG_COUNT) \cup Around(BLOAT_MSG_COUNT * 3)
SampleCompactions == Around(3) \cup Around(10)
SampleErrors == Around(5)
SampleAges ==
    Around(ZOMBIE_HOURS * HOUR) \cup Around(STALE_DAYS * DAY)
        \cup Around(STALE_DAYS * 4 * DAY)
OldestAge == STALE_DAYS * 4 * DAY + Slack

TimesOf(f, l) ==
    {[mtime |-> Aware(RefNow), first |-> Aware(RefNow - f),
      last |-> Aware(RefNow - l), created |-> c] :
        c \in {None, Aware(RefNow - f), Aware(RefNow - l)}}

SampleTimes ==
    {[mtime |-> Aware(RefNow - a), first |-> None, last |-> None,
      created |-> None] : a \in SampleAges \cup {0 - HOUR}}
    \cup UNION {TimesOf(l, l) \cup TimesOf(OldestAge, l) : l \in SampleAges}
    \cup {[mtime |-> Aware(RefNow), first |-> Naive(T1), last |-> Naive(T1),
           created |-> c] : c \in {None, Naive(T1)}}

ClassifyInputs ==
    {[InitStats(sz, tm.mtime) EXCEPT
         !.messages = m, !.compactions = c, !.errors = e,
         !.first_timestamp = tm.first, !.last_timestamp = tm.last,
         !.created = tm.created] :
       sz \in SampleSizes, m \in SampleMessages, c \in SampleCompactions,
       e \in SampleErrors, tm \in SampleTimes}

NoResult == [raised |-> FALSE, labels |-> <<>>]

-----------------------------------------------------------------------------
(* The session pipeline: analyze_session reads the file line by line, then *)
(* cmd_scan hands the statistics to classify_session (lines 368-369).      *)

Init ==
    /\ file \in Files
    /\ pos = 0
    /\ stats = InitStats(FileSize(file), MTime)
    /\ pc = "reading"
    /\ now = RefNow
    /\ result = NoResult
    /\ corpus = <<>>
    /\ scan = NotRun
    /\ disk = NotRun
    /\ hist = NotRun
    /\ clean = NotRun

(* one iteration of `for line_num, line in enumerate(f)`; an exception     *)
(* leaves the loop through the handler of line 184 and the function        *)
(* returns                                                                 *)
ReadLine ==
    /\ pc = "reading"
    /\ pos < Len(file)
    /\ LET r == JsonLine(stats, file[pos + 1]) IN
       /\ stats' = IF Raised(r) THEN Handler(r.s, r.exc) ELSE r.s
       /\ pc' = IF Raised(r) THEN "returned" ELSE "reading"
    /\ pos' = pos + 1
    /\ UNCHANGED <<file, now, result>>
    /\ UNCHANGED cmdvars

(* open() or the read of the next line fails (OSError): handler, return *)
ReadFail ==
    /\ pc = "reading"
    /\ stats' = Handler(stats, "OSError")
    /\ pc' = "returned"
    /\ UNCHANGED <<file, pos, now, result>>
    /\ UNCHANGED cmdvars

(* the iterator is exhausted: lines 189-191 *)
EndOfFile ==
    /\ pc = "reading"
    /\ pos = Len(file)
    /\ pc' = "returned"
    /\ UNCHANGED <<file, pos, stats, now, result>>
    /\ UNCHANGED cmdvars

(* labels = classify_session(stats, now) *)
Classify ==
    /\ pc = "returned"
    /\ \E n \in Nows :
         /\ now' = n
         /\ result' = classify_session(stats, n)
    /\ pc' = "classified"
    /\ UNCHANGED <<file, pos, stats>>
    /\ UNCHANGED cmdvars

Next == ReadLine \/ EndOfFile \/ ReadFail \/ Classify

Spec == Init /\ [][Next]_vars

(* classify_session as a pure function of sampled statistics *)
InitClassify ==
    /\ file = <<>>
    /\ pos = 0
    /\ stats \in ClassifyInputs
    /\ pc = "returned"
    /\ now = RefNow
    /\ result = NoResult
    /\ corpus = <<>>
    /\ scan = NotRun
    /\ disk = NotRun
    /\ hist = NotRun
    /\ clean = NotRun

NextClassify == Classify

SpecClassify == InitClassify /\ [][NextClassify]_vars

-----------------------------------------------------------------------------
(* Vocabulary of the properties *)

MiB == 1024 * 1024
Labels == result.labels
Has(l) == \E i \in 1..Len(Labels) : Labels[i] = l
Classified == pc = "classified"
Returned == Classified /\ ~result.raised

(* the rule a label belongs to, in the order of the rules; 0 for healthy *)
Rank(l) ==
    IF l \in {"mega-bloat", "bloated"} THEN 1
    ELSE IF l \in {"msg-overflow", "msg-heavy"} THEN 2
    ELSE IF l \in {"ancient", "stale"} THEN 3
    ELSE IF l = "zombie" THEN 4
    ELSE IF l \in {"over-compacted", "compacted"} THEN 5
    ELSE IF l = "parse-errors" THEN 6
    ELSE 0

-----------------------------------------------------------------------------
(* C1: for every statistics record and every now, classify_session returns *)
(* a non-empty label list in which "healthy" is present if and only if it  *)
(* is the only label.  The statistics analyze_session builds from a        *)
(* timestamp without zone make classify_session raise instead of return.   *)
C1_ReturnsExclusiveHealthy ==
    Classified =>
        /\ ~result.raised
        /\ Len(Labels) > 0
        /\ Has("healthy") <=> Labels = <<"healthy">>

(* C2: the labels contain "mega-bloat" exactly when size_bytes > 5 MiB,    *)
(* "bloated" exactly when 1 MiB < size_bytes <= 5 MiB, never both; a size  *)
(* equal to a threshold does not trigger that threshold's label.           *)
C2_SizeRule ==
    Returned =>
        /\ Has("mega-bloat") <=> stats.size_bytes > 5 * MiB
        /\ Has("bloated") <=>
              (stats.size_bytes > MiB /\ stats.size_bytes <= 5 * MiB)
        /\ ~(Has("mega-bloat") /\ Has("bloated"))

C2_Witness ==
    /\ Returned
    /\ stats.size_bytes = 5 * MiB
    /\ Has("bloated")
    /\ ~Has("mega-bloat")

(* C3: the labels contain "msg-overflow" exactly when messages > 900,      *)
(* "msg-heavy" exactly when 300 < messages <= 900, never both.             *)
C3_MessageRule ==
    Returned =>
        /\ Has("msg-overflow") <=> stats.messages > 900
        /\ Has("msg-heavy") <=> (stats.messages > 300 /\ stats.messages <= 900)
        /\ ~(Has("msg-overflow") /\ Has("msg-heavy"))

C3_Witness ==
    /\ Returned
    /\ stats.messages = 901
    /\ Has("msg-overflow")
    /\ ~Has("msg-heavy")

(* C4: with last-activity the last-seen event instant, or the file         *)
(* modification instant when last-seen is null, and age = now - last       *)
(* activity: "ancient" exactly when age > 28 days, "stale" exactly when    *)
(* 7 days < age <= 28 days, never both; the modification instant counts    *)
(* only when last-seen is null.                                            *)
C4_StalenessRule ==
    Returned =>
        LET age == IF stats.last_timestamp # None
                   THEN now - stats.last_timestamp.t
                   ELSE now - stats.mtime.t
        IN /\ Has("ancient") <=> age > 28 * DAY
           /\ Has("stale") <=> (age > 7 * DAY /\ age <= 28 * DAY)
           /\ ~(Has("ancient") /\ Has("stale"))

C4_Witness ==
    /\ Returned
    /\ stats.last_timestamp # None
    /\ now - stats.last_timestamp.t = 7 * DAY + 1
    /\ now - stats.mtime.t = 0
    /\ Has("stale")

(* C5: "zombie" if and only if messages <= 2 and the creation instant      *)
(* (created, else first-seen) is non-null and more than 48 hours before    *)
(* now; with <= 2 messages and both instants null, never "zombie",         *)
(* whatever the file modification instant.                                 *)
C5_ZombieRule ==
    Returned =>
        LET c == IF stats.created # None THEN stats.created
                 ELSE stats.first_timestamp
        IN /\ Has("zombie") <=>
                (stats.messages <= 2 /\ c # None /\ now - c.t > 48 * HOUR)
           /\ (stats.messages <= 2 /\ stats.created = None
                 /\ stats.first_timestamp = None) => ~Has("zombie")

C5_Witness ==
    /\ Returned
    /\ stats.messages = 2
    /\ stats.created = None
    /\ stats.first_timestamp # None
    /\ now - stats.first_timestamp.t = 48 * HOUR + 1
    /\ Has("zombie")

(* C6: each rule contributes at most one label and the labels come in the  *)
(* fixed order size, messages, staleness, zombie, compaction, parse        *)
(* errors, whatever their severity; "over-compacted" (compactions > 10)    *)
(* and "compacted" (3 < compactions <= 10) never both appear and           *)
(* "parse-errors" appears exactly when errors > 5.                         *)
C6_OneLabelPerRuleInOrder ==
    Returned =>
        /\ \A i \in 1..Len(Labels) : \A j \in 1..Len(Labels) :
              i < j => Rank(Labels[i]) < Rank(Labels[j])
        /\ Has("over-compacted") <=> stats.compactions > 10
        /\ Has("compacted") <=>
              (stats.compactions > 3 /\ stats.compactions <= 10)
        /\ ~(Has("over-compacted") /\ Has("compacted"))
        /\ Has("parse-errors") <=> stats.errors > 5

C6_Witness ==
    /\ Returned
    /\ Labels = <<"bloated", "stale", "zombie", "compacted", "parse-errors">>

-----------------------------------------------------------------------------
(* Vocabulary of the properties of analyze_session *)

(* analyze_session has returned and no file-level read error occurred *)
ReadWhole == pc \in {"returned", "classified"} /\ stats.error_detail # "OSError"

(* a line that is not blank and does not decode into an event object *)
Undecodable(line) == line.shape \in {"garbage", "nonobject"}

IsEvent(line, type) == line.shape = "object" /\ line.type = type
IsMessage(line) == IsEvent(line, "message")
HasRole(line, role) ==
    IsMessage(line) /\ line.msg = "dict" /\ line.role = role

(* an event whose fields have the types of the session schema: a zoned or  *)
(* absent timestamp, an object for "message" and "data", string names      *)
WellTyped(line) ==
    line.shape = "object" =>
        /\ line.ts.form \in {"absent", "Z", "offset"}
        /\ line.msg # "nondict"
        /\ line.data # "nondict"
        /\ line.toolName # UNHASHABLE
        /\ line.modelId # UNHASHABLE
        /\ line.customType # UNHASHABLE
        /\ \A j \in 1..Len(line.content) : line.content[j].name # UNHASHABLE

AllWellTyped == \A i \in 1..Len(file) : WellTyped(file[i])

IsUser(line) == HasRole(line, "user")
IsAssistant(line) == HasRole(line, "assistant")
IsToolResult(line) == HasRole(line, "toolResult")
IsCompaction(line) == IsEvent(line, "compaction")

(* how many lines of the file are of each sort *)
NumLinesIsMessage == Cardinality({i \in 1..Len(file) : IsMessage(file[i])})
NumLinesIsUser == Cardinality({i \in 1..Len(file) : IsUser(file[i])})
NumLinesIsAssistant == Cardinality({i \in 1..Len(file) : IsAssistant(file[i])})
NumLinesIsToolResult == Cardinality({i \in 1..Len(file) : IsToolResult(file[i])})
NumLinesIsCompaction == Cardinality({i \in 1..Len(file) : IsCompaction(file[i])})
NumLinesUndecodable == Cardinality({i \in 1..Len(file) : Undecodable(file[i])})

(* tool-invocation blocks of the assistant messages of the file *)
ToolBlocks ==
    {<<i, j>> \in (1..Len(file)) \X (1..4) :
        /\ IsAssistant(file[i])
        /\ j <= Len(file[i].content)
        /\ file[i].content[j].btype = "tool_use"}

RECURSIVE SumCounts(_, _)
SumCounts(counter, keys) ==
    IF keys = {} THEN 0
    ELSE LET k == CHOOSE x \in keys : TRUE
         IN counter[k] + SumCounts(counter, keys \ {k})

(* a present timestamp that is not ISO-8601 with "Z" or an offset *)
BadTimestamp(line) ==
    line.shape = "object" /\ line.ts.form \in {"nonstring", "garbage", "nozone"}

-----------------------------------------------------------------------------
(* C7: no single line, whatever its content, stops the processing of the   *)
(* lines after it: reading a line that has lines after it leaves the       *)
(* reader reading, and a line that does not decode into an event adds      *)
(* exactly one to the parse-error count.                                   *)
C7_NoLineStopsTheRead ==
    [][(pc = "reading" /\ pos' = pos + 1 /\ pos' < Len(file)) =>
          /\ pc' = "reading"
          /\ Undecodable(file[pos']) => stats'.errors = stats.errors + 1
      ]_vars

(* C8: a timestamp that is present but not ISO-8601 with "Z" or an offset  *)
(* is treated exactly like an absent one: the line leaves the statistics   *)
(* and the reader as the same line without its timestamp would.            *)
C8_BadTimestampIsAbsent ==
    [][(pc = "reading" /\ pos' = pos + 1 /\ BadTimestamp(file[pos'])) =>
          LET r == JsonLine(stats, [file[pos'] EXCEPT !.ts = TsAbsent])
          IN /\ stats' = IF Raised(r) THEN Handler(r.s, r.exc) ELSE r.s
             /\ pc' = IF Raised(r) THEN "returned" ELSE "reading"
      ]_vars

(* C9: for the lines of a readable file whose events are well typed,       *)
(* messages, user_messages, assistant_messages, compactions and errors are *)
(* the numbers of message events, of those with role user, of those with   *)
(* role assistant, of compaction events and of undecodable lines.          *)
C9_CountersMatchTheLines ==
    (ReadWhole /\ AllWellTyped) =>
        /\ stats.messages = NumLinesIsMessage
        /\ stats.user_messages = NumLinesIsUser
        /\ stats.assistant_messages = NumLinesIsAssistant
        /\ stats.compactions = NumLinesIsCompaction
        /\ stats.errors = NumLinesUndecodable
        /\ stats.user_messages + stats.assistant_messages <= stats.messages

(* C10: every tool-invocation block of an assistant message and every      *)
(* tool-result message adds one to tool_calls and one to the count of its  *)
(* tool name, and nothing else does; tool_calls always equals the sum of   *)
(* the counts of tools_used.                                               *)
C10_ToolCallsCounted ==
    /\ stats.tool_calls = SumCounts(stats.tools_used, ToolNames)
    /\ (ReadWhole /\ AllWellTyped) =>
          stats.tool_calls = Cardinality(ToolBlocks) + NumLinesIsToolResult

-----------------------------------------------------------------------------
(* the lines consumed so far that are events carrying a timestamp in       *)
(* ISO-8601 form with "Z" or an offset, and the instants they carry        *)
Stamped == {i \in 1..pos : file[i].shape = "object"
                            /\ file[i].ts.form \in {"Z", "offset"}}
SeenInstants == {file[i].ts.t - file[i].ts.off : i \in Stamped}
MinOf(S) == CHOOSE x \in S : \A y \in S : x <= y
MaxOf(S) == CHOOSE x \in S : \A y \in S : x >= y

(* C11: after any prefix of lines, first_timestamp is the minimum and      *)
(* last_timestamp the maximum of the parsable timestamps of the events     *)
(* seen so far, whatever their kind; both are null exactly when no event   *)
(* carried a parsable timestamp; first <= last when both are non-null.     *)
C11_FirstLastAreMinMax ==
    /\ stats.first_timestamp = None <=> SeenInstants = {}
    /\ stats.last_timestamp = None <=> SeenInstants = {}
    /\ SeenInstants # {} =>
          /\ stats.first_timestamp = Aware(MinOf(SeenInstants))
          /\ stats.last_timestamp = Aware(MaxOf(SeenInstants))
    /\ (stats.first_timestamp # None /\ stats.last_timestamp # None) =>
          stats.first_timestamp.t <= stats.last_timestamp.t

(* C12: when the read fails part-way (file-level error) analyze_session    *)
(* stops reading and returns the statistics gathered from the lines before *)
(* the failure unchanged, with the parse-error count one higher.           *)
C12_ReadErrorKeepsPartialStats ==
    [][(pc = "reading" /\ pc' = "returned" /\ stats'.error_detail = "OSError")
          => /\ stats' = [stats EXCEPT !.errors = @ + 1,
                                       !.error_detail = "OSError"]
             /\ pos' = pos
      ]_vars

C12_Witness ==
    /\ pc = "returned"
    /\ stats.error_detail = "OSError"
    /\ pos = 2
    /\ pos < Len(file)
    /\ stats.messages = 2
    /\ stats.errors = 1

-----------------------------------------------------------------------------
(* cmd_scan: every agent's session directory is enumerated, each session   *)
(* analysed and classified, and a summary printed (lines 327-480).         *)

LARGE_SESSION_TOP_N == 15

(* a session file on disk: the rank of its path among the paths of its     *)
(* directory, what stat() gives, its lines, whether its name carries       *)
(* ".deleted.", and whether it is removed after the directory was listed   *)
SessionFile(path, size, mtime, lines) ==
    [path |-> path, size_bytes |-> size, mtime |-> mtime, lines |-> lines,
     deleted |-> FALSE, gone |-> FALSE]
Deleted(sf) == [sf EXCEPT !.deleted = TRUE]
Vanished(sf) == [sf EXCEPT !.gone = TRUE]

(* the emoji that starts each label (lines 199-235) *)
Emoji(l) ==
    IF l \in {"mega-bloat", "msg-overflow", "ancient"} THEN "red-circle"
    ELSE IF l \in {"bloated", "msg-heavy", "stale"} THEN "yellow-circle"
    ELSE IF l = "zombie" THEN "ghost"
    ELSE IF l \in {"over-compacted", "compacted"} THEN "package"
    ELSE IF l = "parse-errors" THEN "warning-sign"
    ELSE "check-mark"

(* any(emoji in l for l in labels) *)
AnyLabel(labels, emoji) == \E k \in 1..Len(labels) : Emoji(labels[k]) = emoji

(* sorted(..., key=size, reverse=True) and list.sort: stable, so members   *)
(* of equal size keep the order they had                                   *)
InsertBySize(sorted, x) ==
    LET k == Cardinality({i \in 1..Len(sorted) :
                              sorted[i].size_bytes >= x.size_bytes})
    IN SubSeq(sorted, 1, k) \o <<x>> \o SubSeq(sorted, k + 1, Len(sorted))

RECURSIVE SortBySize(_)
SortBySize(s) ==
    IF s = <<>> THEN <<>>
    ELSE InsertBySize(SortBySize(SubSeq(s, 1, Len(s) - 1)), s[Len(s)])

(* lines 315-324; the listing holds only names that end in ".jsonl" *)
scan_sessions(dir, include_deleted) ==
    SortBySize(SelectSeq(dir, LAMBDA f : ~f.deleted \/ include_deleted))

RECURSIVE SumSizes(_)
SumSizes(s) ==
    IF s = <<>> THEN 0 ELSE s[1].size_bytes + SumSizes(Tail(s))

(* the read loop of analyze_session as one function of the file's lines *)
RECURSIVE ReadLines(_, _, _)
ReadLines(s, lines, i) ==
    IF i > Len(lines) THEN s
    ELSE LET r == JsonLine(s, lines[i]) IN
         IF Raised(r) THEN Handler(r.s, r.exc)
         ELSE ReadLines(r.s, lines, i + 1)

(* lines 78-191; filepath.stat() at lines 84-85 stands before the try, so  *)
(* a file that is gone raises FileNotFoundError out of the function        *)
analyze_session(sf) ==
    IF sf.gone THEN [raised |-> TRUE, stats |-> NotRun]
    ELSE [raised |-> FALSE,
          stats |-> ReadLines(InitStats(sf.size_bytes, sf.mtime), sf.lines, 1)]

(* the loop of lines 367-373 from session i on: no try surrounds the two   *)
(* calls, so an exception of either leaves cmd_scan                        *)
RECURSIVE SessionLoop(_, _, _, _, _)
SessionLoop(acc, sessions, i, agent, now_) ==
    IF i > Len(sessions) THEN acc
    ELSE
      LET a == analyze_session(sessions[i]) IN
      IF a.raised THEN [acc EXCEPT !.raised = TRUE]
      ELSE
        LET c == classify_session(a.stats, now_) IN
        IF c.raised THEN [acc EXCEPT !.raised = TRUE]
        ELSE
          LET st == [labels |-> c.labels, agent |-> agent,
                     path |-> sessions[i].path] @@ a.stats
              issue == \E k \in 1..Len(c.labels) :
                           Emoji(c.labels[k]) # "check-mark"
          IN SessionLoop([acc EXCEPT
                             !.all_stats = Append(@, st),
                             !.agent_issues = IF issue THEN Append(@, st) ELSE @],
                         sessions, i + 1, agent, now_)

(* lines 414-416 *)
red_issues(all_issues) ==
    SelectSeq(all_issues, LAMBDA st : AnyLabel(st.labels, "red-circle"))

yellow_issuesAnyYellow(all_issues) ==
    SelectSeq(all_issues, LAMBDA st : AnyLabel(st.labels, "yellow-circle"))

yellow_issues(all_issues) ==
    SelectSeq(all_issues,
              LAMBDA st : /\ AnyLabel(st.labels, "yellow-circle")
                          /\ \A k \in 1..Len(red_issues(all_issues)) :
                                 red_issues(all_issues)[k] # st)

zombie_issues(all_issues) ==
    SelectSeq(all_issues, LAMBDA st : AnyLabel(st.labels, "ghost"))

(* a figure that takes only the zombie met first *)
reclaimableFirstZombie(all_issues) ==
    IF zombie_issues(all_issues) = <<>> THEN 0
    ELSE zombie_issues(all_issues)[1].size_bytes

(* lines 425-428 *)
reclaimable(all_issues) == SumSizes(zombie_issues(all_issues))

stale_reclaimableAncientOnly(all_issues) ==
    SumSizes(SelectSeq(all_issues,
                       LAMBDA st : \E k \in 1..Len(st.labels) :
                                       st.labels[k] = "ancient"))

stale_reclaimable(all_issues) ==
    SumSizes(SelectSeq(all_issues,
                       LAMBDA st : \E k \in 1..Len(st.labels) :
                                       st.labels[k] \in {"stale", "ancient"}))

(* the figures of lines 409-428 and 470-478 *)
Summary(sc) ==
    [total_sessions |-> sc.total_sessions,
     total_size_bytes |-> sc.total_size,
     issues_count |-> Len(sc.all_issues),
     critical_count |-> Len(red_issues(sc.all_issues)),
     warning_count |-> Len(yellow_issues(sc.all_issues)),
     zombie_count |-> Len(zombie_issues(sc.all_issues)),
     reclaimable |-> reclaimable(sc.all_issues),
     stale_reclaimable |-> stale_reclaimable(sc.all_issues)]

NoSummary == [total_sessions |-> -1]

(* the session files the scan is tried on *)
HealthyFile == SessionFile(1, 1000, MTime, <<Message("user", TsZ(T3))>>)
WarningFile ==
    SessionFile(2, BLOAT_SIZE_BYTES + 1, MTime,
                <<Message("user", TsZ(T1)), Message("assistant", TsZ(T1)),
                  Message("user", TsZ(T1))>>)
ZombieFile == SessionFile(3, 2048, MTime, <<Entry("session", TsZ(T2))>>)
AncientZombieFile ==
    SessionFile(4, BLOAT_SIZE_BYTES + 1, MTime, <<Entry("session", TsZ(T0))>>)
CompactedFile ==
    SessionFile(5, 4096, MTime, [i \in 1..4 |-> Entry("compaction", TsZ(T3))])
NaiveFile == SessionFile(6, 512, MTime, <<Entry("session", TsNoZone(T3))>>)
VanishedFile == Vanished(SessionFile(7, 256, MTime, <<>>))

ScanPool ==
    {HealthyFile, WarningFile, ZombieFile, AncientZombieFile, CompactedFile,
     NaiveFile, VanishedFile}

MaxSessions == 3

(* a directory listing: distinct files in the order iterdir() yields them *)
Listings(pool, n) ==
    {l \in UNION {[1..m -> pool] : m \in 0..n} :
         \A i, j \in 1..Len(l) : i # j => l[i] # l[j]}

(* two agents, in the sorted order of discover_agents, and their listings *)
Corpora ==
    UNION {{<<SubSeq(l, 1, k), SubSeq(l, k + 1, Len(l))>> : k \in 0..Len(l)} :
               l \in Listings(ScanPool, MaxSessions)}

InitScan ==
    /\ corpus \in Corpora
    /\ scan = [run |-> TRUE, agent |-> 1, total_sessions |-> 0,
               total_size |-> 0, all_issues |-> <<>>, all_stats |-> <<>>,
               shown |-> <<>>, summary |-> NoSummary]
    /\ pc = "scan"
    /\ now = RefNow
    /\ file = <<>>
    /\ pos = 0
    /\ stats = NotRun
    /\ result = NoResult
    /\ disk = NotRun
    /\ hist = NotRun
    /\ clean = NotRun

(* one turn of `for agent in agents` (lines 351-405) *)
ScanAgent ==
    /\ pc = "scan"
    /\ scan.agent <= Len(corpus)
    /\ LET sessions == scan_sessions(corpus[scan.agent], FALSE)
           agent_size == SumSizes(sessions)
           r == SessionLoop([all_stats |-> scan.all_stats,
                             agent_issues |-> <<>>, raised |-> FALSE],
                            sessions, 1, scan.agent, now)
           ranked == SortBySize(r.agent_issues)
       IN IF r.raised
          THEN /\ pc' = "crashed"
               /\ scan' = [scan EXCEPT !.all_stats = r.all_stats]
          ELSE /\ pc' = "scan"
               /\ scan' = [scan EXCEPT
                     !.agent = @ + 1,
                     !.total_sessions = @ + Len(sessions),
                     !.total_size = @ + agent_size,
                     !.all_issues = @ \o r.agent_issues,
                     !.all_stats = r.all_stats,
                     !.shown = Append(@,
                         SubSeq(ranked, 1,
                                IF LARGE_SESSION_TOP_N < Len(ranked)
                                THEN LARGE_SESSION_TOP_N ELSE Len(ranked)))]
    /\ UNCHANGED <<now, corpus, disk, hist, clean>>
    /\ UNCHANGED sessionvars

(* after the last agent: the summary of lines 407-480 *)
ScanSummary ==
    /\ pc = "scan"
    /\ scan.agent > Len(corpus)
    /\ scan' = [scan EXCEPT !.summary = Summary(scan)]
    /\ pc' = "summary"
    /\ UNCHANGED <<now, corpus, disk, hist, clean>>
    /\ UNCHANGED sessionvars

NextScan == ScanAgent \/ ScanSummary

SpecScan == InitScan /\ [][NextScan]_vars

-----------------------------------------------------------------------------
(* Vocabulary of the scan properties *)

ScanEnded == pc \in {"summary", "crashed"}

(* a file whose own analysis or classification raises *)
Faulty(sf) ==
    IF sf.gone THEN TRUE
    ELSE classify_session(analyze_session(sf).stats, now).raised

(* the entries of all_stats, and those that carry one of the given labels *)
Scanned == 1..Len(scan.all_stats)
Labelled(names) ==
    {k \in Scanned : \E i \in 1..Len(scan.all_stats[k].labels) :
                         scan.all_stats[k].labels[i] \in names}
CriticalLabels == {"mega-bloat", "msg-overflow", "ancient"}
WarningLabels == {"bloated", "msg-heavy", "stale"}

RECURSIVE SizeOfAll(_)
SizeOfAll(K) ==
    IF K = {} THEN 0
    ELSE LET k == CHOOSE x \in K : TRUE
         IN scan.all_stats[k].size_bytes + SizeOfAll(K \ {k})

(* C13: an error raised while reading, analysing or classifying one        *)
(* session file never aborts the scan: the summary is reached and every    *)
(* other enumerated file has its statistics and labels in it.              *)
C13_ScanSurvivesBadSession ==
    ScanEnded =>
        /\ pc = "summary"
        /\ \A a \in 1..Len(corpus) : \A i \in 1..Len(corpus[a]) :
               ~Faulty(corpus[a][i]) =>
                   \E k \in Scanned :
                       /\ scan.all_stats[k].agent = a
                       /\ scan.all_stats[k].path = corpus[a][i].path
                       /\ scan.all_stats[k].labels # <<>>
        /\ scan.summary.total_sessions =
               Cardinality({<<a, i>> \in (1..Len(corpus)) \X (1..MaxSessions) :
                                i <= Len(corpus[a])})

(* C14 as stated: the three severity counts of the summary partition the   *)
(* sessions with issues: they sum to the issues count and no session is    *)
(* counted in two of them.                                                 *)
C14_SeverityCountsPartition ==
    pc = "summary" =>
        /\ scan.summary.critical_count + scan.summary.warning_count
             + scan.summary.zombie_count = scan.summary.issues_count
        /\ Labelled(CriticalLabels) \cap Labelled({"zombie"}) = {}
        /\ (Labelled(WarningLabels) \ Labelled(CriticalLabels))
              \cap Labelled({"zombie"}) = {}

(* C14 amended: the critical count is the number of sessions with a        *)
(* critical label, the warning count the number with a bloated, msg-heavy  *)
(* or stale label and no critical label, the zombie count the number       *)
(* labelled zombie whatever else they carry; critical and warning never    *)
(* count a session twice and together do not exceed the issues count.      *)
C14_SeverityCounts ==
    pc = "summary" =>
        /\ scan.summary.critical_count = Cardinality(Labelled(CriticalLabels))
        /\ scan.summary.warning_count =
               Cardinality(Labelled(WarningLabels) \ Labelled(CriticalLabels))
        /\ scan.summary.zombie_count = Cardinality(Labelled({"zombie"}))
        /\ scan.summary.critical_count + scan.summary.warning_count
              <= scan.summary.issues_count
        /\ scan.summary.issues_count =
               Cardinality(Scanned \ Labelled({"healthy"}))

(* a zombie counted as critical too, a warning, and a session with issues  *)
(* that is in none of the three counts                                     *)
C14_Witness ==
    /\ pc = "summary"
    /\ Labelled(CriticalLabels) \cap Labelled({"zombie"}) # {}
    /\ Labelled(CriticalLabels) \cap Labelled(WarningLabels) # {}
    /\ scan.summary.warning_count = 1
    /\ Labelled({"compacted"}) # {}
    /\ scan.summary.issues_count = 3

(* C15: the zombie-reclaimable figure is the total size of exactly the     *)
(* sessions labelled zombie, the stale-reclaimable figure the total size   *)
(* of exactly the sessions labelled stale or ancient; a session with both  *)
(* kinds of label adds its size to each figure once.                       *)
C15_ReclaimableBytes ==
    pc = "summary" =>
        /\ scan.summary.reclaimable = SizeOfAll(Labelled({"zombie"}))
        /\ scan.summary.stale_reclaimable =
               SizeOfAll(Labelled({"stale", "ancient"}))

C15_Witness ==
    /\ pc = "summary"
    /\ Labelled({"zombie"}) \cap Labelled({"ancient"}) # {}
    /\ Labelled({"zombie"}) \ Labelled({"stale", "ancient"}) # {}
    /\ Labelled({"stale"}) \ Labelled({"zombie"}) # {}
    /\ scan.summary.reclaimable = BLOAT_SIZE_BYTES + 1 + 2048
    /\ scan.summary.stale_reclaimable = 2 * (BLOAT_SIZE_BYTES + 1)

(* C16: within each agent the sessions with issues are shown by descending *)
(* size, and two of equal size by file path, whatever the order in which   *)
(* the directory was enumerated.                                           *)
C16_RankedBySizeThenPath ==
    \A a \in 1..Len(scan.shown) :
        \A i, j \in 1..Len(scan.shown[a]) :
            i < j =>
               \/ scan.shown[a][i].size_bytes > scan.shown[a][j].size_bytes
               \/ /\ scan.shown[a][i].size_bytes = scan.shown[a][j].size_bytes
                  /\ scan.shown[a][i].path < scan.shown[a][j].path

-----------------------------------------------------------------------------
(* cmd_disk: per agent, the disk use of its sessions and the size          *)
(* distribution of the active ones (lines 771-822).                        *)

(* sorted(list of sizes) *)
InsertAscending(sorted, x) ==
    LET k == Cardinality({i \in 1..Len(sorted) : sorted[i] <= x})
    IN SubSeq(sorted, 1, k) \o <<x>> \o SubSeq(sorted, k + 1, Len(sorted))

RECURSIVE SortAscending(_)
SortAscending(s) ==
    IF s = <<>> THEN <<>>
    ELSE InsertAscending(SortAscending(SubSeq(s, 1, Len(s) - 1)), s[Len(s)])

(* lines 794-798; the list index is 0-based in the source and 1-based      *)
(* here; int(n * 0.9) and int(n * 0.99) are the floors of 9n/10, 99n/100   *)
P50Index(n) == (n \div 2) + 1
P90Index(n) == ((9 * n) \div 10) + 1
P99Index(n) == ((99 * n) \div 100) + 1

NoPercentiles == [p50 |-> -1, p90 |-> -1, p99 |-> -1]

Percentiles(active) ==
    IF active = <<>> THEN NoPercentiles
    ELSE LET sizes == SortAscending([i \in 1..Len(active) |->
                                        active[i].size_bytes])
         IN [p50 |-> sizes[P50Index(Len(sizes))],
             p90 |-> sizes[P90Index(Len(sizes))],
             p99 |-> sizes[P99Index(Len(sizes))]]

(* the directories cmd_disk is tried on: up to MaxFiles active sessions    *)
(* whose sizes rise by nothing or by 100 bytes from one to the next, with  *)
(* or without a soft-deleted session beside them                           *)
MaxFiles == 10

RECURSIVE Staircases(_)
Staircases(n) ==
    IF n = 1 THEN {<<1>>}
    ELSE UNION {{Append(st, st[Len(st)]), Append(st, st[Len(st)] + 1)} :
                    st \in Staircases(n - 1)}

DiskListing(st) ==
    [i \in 1..Len(st) |-> SessionFile(i, 100 * st[i], MTime, <<>>)]

DeletedFile == Deleted(SessionFile(0, 5000, MTime, <<>>))

DiskCorpora ==
    {<<l \o d>> :
        l \in {<<>>} \cup {DiskListing(st) :
                              st \in UNION {Staircases(n) : n \in 1..MaxFiles}},
        d \in {<<>>, <<DeletedFile>>}}

InitDisk ==
    /\ corpus \in DiskCorpora
    /\ disk = [run |-> TRUE, agent |-> 1, total |-> 0, reports |-> <<>>,
               printed |-> FALSE]
    /\ pc = "disk"
    /\ now = RefNow
    /\ file = <<>>
    /\ pos = 0
    /\ stats = NotRun
    /\ result = NoResult
    /\ scan = NotRun
    /\ hist = NotRun
    /\ clean = NotRun

(* one turn of `for agent in agents` (lines 779-801) *)
DiskAgent ==
    /\ pc = "disk"
    /\ disk.agent <= Len(corpus)
    /\ LET sessions == scan_sessions(corpus[disk.agent], TRUE)
           active == SelectSeq(sessions, LAMBDA f : ~f.deleted)
           deleted == SelectSeq(sessions, LAMBDA f : f.deleted)
           agent_total == SumSizes(active) + SumSizes(deleted)
       IN disk' = [disk EXCEPT
                     !.agent = @ + 1,
                     !.total = @ + agent_total,
                     !.reports = Append(@,
                         [active |-> Len(active), deleted |-> Len(deleted),
                          total |-> agent_total] @@ Percentiles(active))]
    /\ UNCHANGED <<pc, now, corpus, scan, hist, clean>>
    /\ UNCHANGED sessionvars

(* line 803: the grand total *)
DiskTotal ==
    /\ pc = "disk"
    /\ disk.agent > Len(corpus)
    /\ disk' = [disk EXCEPT !.printed = TRUE]
    /\ pc' = "done"
    /\ UNCHANGED <<now, corpus, scan, hist, clean>>
    /\ UNCHANGED sessionvars

NextDisk == DiskAgent \/ DiskTotal

SpecDisk == InitDisk /\ [][NextDisk]_vars

(* the active sessions of agent a, and the k-th smallest of their sizes *)
ActiveSizes(a) ==
    {<<i, corpus[a][i].size_bytes>> :
        i \in {j \in 1..Len(corpus[a]) : ~corpus[a][j].deleted}}
IsKthSmallest(v, k, a) ==
    /\ \E e \in ActiveSizes(a) : e[2] = v
    /\ Cardinality({e \in ActiveSizes(a) : e[2] < v}) < k
    /\ k <= Cardinality({e \in ActiveSizes(a) : e[2] <= v})
NearestRank(p, n) == (p * n + 99) \div 100

(* C17: for every non-empty list of n sizes the reported p50, p90 and p99  *)
(* are the nearest-rank percentiles, the elements of 1-based rank          *)
(* ceil(p/100 * n) of the sorted list (for 10 distinct sizes the 5th, 9th  *)
(* and 10th smallest), and the index used is always within the list.       *)
C17_NearestRankPercentiles ==
    \A a \in 1..Len(disk.reports) :
        LET n == Cardinality(ActiveSizes(a)) IN
        n > 0 =>
           /\ IsKthSmallest(disk.reports[a].p50, NearestRank(50, n), a)
           /\ IsKthSmallest(disk.reports[a].p90, NearestRank(90, n), a)
           /\ IsKthSmallest(disk.reports[a].p99, NearestRank(99, n), a)
           /\ {P50Index(n), P90Index(n), P99Index(n)} \subseteq 1..n

-----------------------------------------------------------------------------
(* cmd_history: the sessions modified in the last `days` days are grouped  *)
(* into weeks counted from the start of the window, and the growth from    *)
(* week to week is reported (lines 824-960).                               *)

HistoryDays == 30

(* lines 846-853: the number of lines that are not blank *)
MessageProxy(sf) == Cardinality({i \in 1..Len(sf.lines) : sf.lines[i] # Blank})

(* lines 839-864 from session i on; a stat() that fails skips the file *)
RECURSIVE CollectSessions(_, _, _, _)
CollectSessions(all_sessions, sessions, i, start_date) ==
    IF i > Len(sessions) THEN all_sessions
    ELSE
      LET sf == sessions[i]
          session == [path |-> sf.path, created |-> sf.mtime.t,
                      size |-> sf.size_bytes, messages |-> MessageProxy(sf)]
      IN IF sf.deleted \/ sf.gone \/ ~(sf.mtime.t >= start_date)
         THEN CollectSessions(all_sessions, sessions, i + 1, start_date)
         ELSE CollectSessions(Append(all_sessions, session), sessions, i + 1,
                              start_date)

(* lines 878-886: the bucket of a week, made when its first session comes; *)
(* history_data is kept in the insertion order of the dict                 *)
NewBucket(week_num) ==
    [week |-> week_num, sessions |-> <<>>, total_size |-> 0, bloated |-> 0,
     zombies |-> 0]

BucketAt(history_data, week_num) ==
    CHOOSE b \in 1..Len(history_data) : history_data[b].week = week_num

(* a bucket that counts as bloated by size alone *)
AddToBucketSizeOnly(bucket, session) ==
    [bucket EXCEPT
        !.sessions = Append(@, session),
        !.total_size = @ + session.size,
        !.bloated = IF session.size > BLOAT_SIZE_BYTES THEN @ + 1 ELSE @,
        !.zombies = IF session.messages <= 2 THEN @ + 1 ELSE @]

(* lines 888-897 *)
AddToBucket(bucket, session) ==
    [bucket EXCEPT
        !.sessions = Append(@, session),
        !.total_size = @ + session.size,
        !.bloated = IF \/ session.size > BLOAT_SIZE_BYTES
                       \/ session.messages > BLOAT_MSG_COUNT
                    THEN @ + 1 ELSE @,
        !.zombies = IF session.messages <= 2 THEN @ + 1 ELSE @]

(* lines 873-897 from session i on; timedelta.days is the floor of the     *)
(* difference in days                                                      *)
RECURSIVE GroupByWeek(_, _, _, _)
GroupByWeek(history_data, all_sessions, i, start_date) ==
    IF i > Len(all_sessions) THEN history_data
    ELSE
      LET session == all_sessions[i]
          days_from_start == (session.created - start_date) \div DAY
          week_num == days_from_start \div 7
      IN IF \E b \in 1..Len(history_data) : history_data[b].week = week_num
         THEN GroupByWeek([history_data EXCEPT
                              ![BucketAt(history_data, week_num)] =
                                  AddToBucket(@, session)],
                          all_sessions, i + 1, start_date)
         ELSE GroupByWeek(Append(history_data,
                                 AddToBucket(NewBucket(week_num), session)),
                          all_sessions, i + 1, start_date)

(* what `{x:+.0f}` prints of the quotient a / b, b > 0: the nearest whole  *)
(* number, the even one of two equally near                                *)
RoundedQuotient(a, b) ==
    LET q == a \div b
        r == a - q * b
    IN IF 2 * r < b THEN q
       ELSE IF 2 * r > b THEN q + 1
       ELSE IF q % 2 = 0 THEN q ELSE q + 1

(* lines 906-925: the weeks by rising number, each against the one before *)
WeekOrder(history_data) ==
    SortAscending([b \in 1..Len(history_data) |-> history_data[b].week])

WeeklyGrowth(history_data) ==
    LET order == WeekOrder(history_data)
        Count(k) == Len(history_data[BucketAt(history_data, order[k])].sessions)
    IN [k \in 1..Len(order) |->
          LET session_count == Count(k)
              prev_sessions == IF k = 1 THEN 0 ELSE Count(k - 1)
          IN [week |-> order[k],
              session_count |-> session_count,
              has_growth |-> prev_sessions > 0,
              session_growth |->
                  IF prev_sessions > 0
                  THEN RoundedQuotient((session_count - prev_sessions) * 100,
                                       prev_sessions)
                  ELSE 0]]

RECURSIVE IntPow(_, _)
IntPow(b, e) == IF e = 0 THEN 1 ELSE b * IntPow(b, e - 1)

(* what `{x:+.0f}` prints of ((last / first) ** (1 / weeks) - 1) * 100:    *)
(* the whole number x - 100 with x - 1/2 <= 100 * root < x + 1/2           *)
RootPercent(first, last, weeks) ==
    LET x == CHOOSE x \in 0..(100 * last + 100) :
                 /\ IntPow(2 * x - 1, weeks) * first <= IntPow(200, weeks) * last
                 /\ IntPow(200, weeks) * last < IntPow(2 * x + 1, weeks) * first
    IN x - 100

(* lines 940-951: first and last are the first and the last bucket of the  *)
(* dict, weeks the number of buckets                                       *)
GrowthRate(history_data) ==
    IF Len(history_data) > 1
    THEN LET first_week == history_data[1]
             last_week == history_data[Len(history_data)]
             weeks == Len(history_data)
         IN [shown |-> TRUE,
             session_growth_rate |->
                 IF Len(first_week.sessions) > 0
                 THEN RootPercent(Len(first_week.sessions),
                                  Len(last_week.sessions), weeks)
                 ELSE 0]
    ELSE [shown |-> FALSE, session_growth_rate |-> 0]

(* the session files the trend is tried on; the window starts at          *)
(* WindowStart and its weeks 0, 1 and 4 are met                            *)
WindowStart == RefNow - HistoryDays * DAY

TalkOf(n) == [i \in 1..n |-> Message("user", TsZ(T3))]

BeforeWindowFile == SessionFile(0, 3000, Aware(WindowStart - 1), TalkOf(3))
AtStartFile ==
    SessionFile(0, BLOAT_SIZE_BYTES + 1, Aware(WindowStart), TalkOf(3))
SecondWeekFile ==
    SessionFile(0, 2000, Aware(WindowStart + 7 * DAY),
                TalkOf(BLOAT_MSG_COUNT + 1))
SecondWeekEndFile ==
    SessionFile(0, 1000, Aware(WindowStart + 14 * DAY - 1),
                <<Message("user", TsZ(T3)), Blank, Garbage>>)
AtNowFile ==
    SessionFile(0, BLOAT_SIZE_BYTES, Aware(RefNow), TalkOf(BLOAT_MSG_COUNT))
FutureFile == SessionFile(0, 500, Aware(RefNow + DAY), TalkOf(3))
DeletedTrendFile == Deleted(SessionFile(0, 4000, Aware(RefNow - DAY), TalkOf(3)))

TrendPool ==
    {BeforeWindowFile, AtStartFile, SecondWeekFile, SecondWeekEndFile,
     AtNowFile, FutureFile, DeletedTrendFile}

(* a directory is written as runs: `copies` files that agree in size,      *)
(* modification time and content and follow one another in the listing     *)
RunLengths == {1, 10, 20}
MaxRuns == 2
TrendRuns == {[file |-> f, copies |-> c] : f \in TrendPool, c \in RunLengths}

RECURSIVE Expand(_, _)
Expand(runs, i) ==
    IF i > Len(runs) THEN <<>>
    ELSE [k \in 1..runs[i].copies |->
             [runs[i].file EXCEPT !.path = 100 * i + k]] \o Expand(runs, i + 1)

(* one agent; its listing is kept as runs and expanded when it is read *)
TrendCorpora == {<<l>> : l \in Listings(TrendRuns, MaxRuns)}

InitHistory ==
    /\ corpus \in TrendCorpora
    /\ hist = [run |-> TRUE, all_sessions |-> <<>>, history_data |-> <<>>,
               weekly |-> <<>>, growth_rate |-> GrowthRate(<<>>)]
    /\ pc = "history"
    /\ now = RefNow
    /\ file = <<>>
    /\ pos = 0
    /\ stats = NotRun
    /\ result = NoResult
    /\ scan = NotRun
    /\ disk = NotRun
    /\ clean = NotRun

(* lines 835-868: the sessions of every agent are collected; with none in  *)
(* the window the command says so and returns                              *)
HistoryCollect ==
    /\ pc = "history"
    /\ LET start_date == now - HistoryDays * DAY
           Agent(a) == CollectSessions(<<>>,
                                       scan_sessions(Expand(corpus[a], 1), FALSE),
                                       1, start_date)
           all_sessions == IF Len(corpus) = 0 THEN <<>> ELSE Agent(1)
       IN /\ hist' = [hist EXCEPT !.all_sessions = all_sessions]
          /\ pc' = IF all_sessions = <<>> THEN "done" ELSE "group"
    /\ UNCHANGED <<now, corpus, scan, disk, clean>>
    /\ UNCHANGED sessionvars

(* lines 870-897 *)
HistoryGroup ==
    /\ pc = "group"
    /\ hist' = [hist EXCEPT
                  !.history_data = GroupByWeek(<<>>, hist.all_sessions, 1,
                                               now - HistoryDays * DAY)]
    /\ pc' = "report"
    /\ UNCHANGED <<now, corpus, scan, disk, clean>>
    /\ UNCHANGED sessionvars

(* lines 899-958 *)
HistoryReport ==
    /\ pc = "report"
    /\ hist' = [hist EXCEPT
                  !.weekly = WeeklyGrowth(hist.history_data),
                  !.growth_rate = GrowthRate(hist.history_data)]
    /\ pc' = "done"
    /\ UNCHANGED <<now, corpus, scan, disk, clean>>
    /\ UNCHANGED sessionvars

NextHistory == HistoryCollect \/ HistoryGroup \/ HistoryReport

SpecHistory == InitHistory /\ [][NextHistory]_vars

-----------------------------------------------------------------------------
(* Vocabulary of the trend properties *)

Collected == pc \in {"group", "report"} \/ (pc = "done" /\ hist.run)
Grouped == pc = "report" \/ (pc = "done" /\ hist.run)

(* the files of the directory, and whether one was selected *)
TrendFiles == Expand(corpus[1], 1)
Selected(sf) ==
    \E i \in 1..Len(hist.all_sessions) : hist.all_sessions[i].path = sf.path
FileAt(path) == CHOOSE sf \in {TrendFiles[i] : i \in 1..Len(TrendFiles)} :
                    sf.path = path
NonBlankLines(sf) == Len(SelectSeq(sf.lines, LAMBDA l : l # Blank))

(* the week a selected session belongs to, and the selected sessions and   *)
(* the places in the buckets that belong to a week                         *)
WeekIndex(session) == ((session.created - WindowStart) \div DAY) \div 7
SessionsOfWeek(w) ==
    {i \in 1..Len(hist.all_sessions) : WeekIndex(hist.all_sessions[i]) = w}
Places ==
    UNION {{<<b, k>> : k \in 1..Len(hist.history_data[b].sessions)} :
               b \in 1..Len(hist.history_data)}

RECURSIVE SizeOfSessions(_)
SizeOfSessions(K) ==
    IF K = {} THEN 0
    ELSE LET k == CHOOSE x \in K : TRUE
         IN hist.all_sessions[k].size + SizeOfSessions(K \ {k})

(* C18: a session is selected for the trend exactly when it is not         *)
(* soft-deleted and its modification instant lies in [now - window, now];  *)
(* no session modified before the window or after now is put in a bucket.  *)
C18_SelectedWithinWindow ==
    Collected =>
        /\ \A i \in 1..Len(TrendFiles) :
               Selected(TrendFiles[i]) <=>
                   /\ ~TrendFiles[i].deleted
                   /\ WindowStart <= TrendFiles[i].mtime.t
                   /\ TrendFiles[i].mtime.t <= now
        /\ \A p \in Places :
               LET session == hist.history_data[p[1]].sessions[p[2]]
               IN WindowStart <= session.created /\ session.created <= now

C20_TwoBucketsGrowth ==
    (/\ pc = "done"
     /\ Len(hist.weekly) = 2
     /\ hist.weekly[1].session_count = 10
     /\ hist.weekly[2].session_count = 20)
    => /\ hist.weekly[2].has_growth
       /\ hist.weekly[2].session_growth = 100
       /\ hist.growth_rate.shown
       /\ hist.growth_rate.session_growth_rate = 100

(* the buckets by week index: the lowest, the highest, and the one just    *)
(* below a given bucket                                                    *)
Buckets == 1..Len(hist.history_data)
LowestBucket ==
    CHOOSE b \in Buckets :
        \A c \in Buckets : hist.history_data[b].week <= hist.history_data[c].week
HighestBucket ==
    CHOOSE b \in Buckets :
        \A c \in Buckets : hist.history_data[b].week >= hist.history_data[c].week
Below(b) ==
    CHOOSE p \in Buckets :
        /\ hist.history_data[p].week < hist.history_data[b].week
        /\ \A c \in Buckets :
               hist.history_data[c].week < hist.history_data[b].week
                   => hist.history_data[c].week <= hist.history_data[p].week
WeeklyOf(b) ==
    CHOOSE k \in 1..Len(hist.weekly) :
        hist.weekly[k].week = hist.history_data[b].week
SessionsIn(b) == Len(hist.history_data[b].sessions)

(* C21: the compound growth rate takes the bucket of lowest week index as  *)
(* first and the bucket of highest week index as last, whatever the order  *)
(* in which the sessions were enumerated; week-over-week growth compares   *)
(* each bucket with the bucket of next-lower index, and the lowest bucket  *)
(* has no growth figure.                                                   *)
C21_GrowthFollowsWeekIndex ==
    (pc = "done" /\ hist.history_data # <<>>) =>
        /\ Len(hist.weekly) = Len(hist.history_data)
        /\ \A b \in Buckets :
              IF b = LowestBucket
              THEN ~hist.weekly[WeeklyOf(b)].has_growth
              ELSE /\ hist.weekly[WeeklyOf(b)].has_growth
                   /\ hist.weekly[WeeklyOf(b)].session_growth =
                          RoundedQuotient(
                              (SessionsIn(b) - SessionsIn(Below(b))) * 100,
                              SessionsIn(Below(b)))
        /\ Len(hist.history_data) > 1 =>
              /\ hist.growth_rate.shown
              /\ hist.growth_rate.session_growth_rate =
                     RootPercent(SessionsIn(LowestBucket),
                                 SessionsIn(HighestBucket),
                                 Len(hist.history_data))

-----------------------------------------------------------------------------
(* The corpus as a set: the session files of all agents, whatever agent    *)
(* holds them and wherever they stand in its listing, with the labels      *)
(* each gets when analysed and classified on its own.                      *)
CorpusFiles ==
    UNION {{corpus[a][i] : i \in 1..Len(corpus[a])} : a \in 1..Len(corpus)}
LabelsOf(sf) == classify_session(analyze_session(sf).stats, now).labels
FilesWith(names) ==
    {sf \in CorpusFiles : \E k \in 1..Len(LabelsOf(sf)) : LabelsOf(sf)[k] \in names}

RECURSIVE BytesOf(_)
BytesOf(F) ==
    IF F = {} THEN 0
    ELSE LET sf == CHOOSE x \in F : TRUE
         IN sf.size_bytes + BytesOf(F \ {sf})

(* C23: the corpus summary does not depend on the processing order: total  *)
(* sessions, total bytes, issues count, the severity counts and both       *)
(* reclaimable figures are functions of the set of session files alone,    *)
(* so every permutation of the agents and of the files within them gives   *)
(* the same summary (and a scan that ends without one does so in every     *)
(* order).                                                                 *)
C23_SummaryIsOrderFree ==
    /\ pc = "crashed" => \E sf \in CorpusFiles : Faulty(sf)
    /\ pc = "summary" =>
        /\ \A sf \in CorpusFiles : ~Faulty(sf)
        /\ scan.summary.total_sessions = Cardinality(CorpusFiles)
        /\ scan.summary.total_size_bytes = BytesOf(CorpusFiles)
        /\ scan.summary.issues_count =
               Cardinality(CorpusFiles \ FilesWith({"healthy"}))
        /\ scan.summary.critical_count = Cardinality(FilesWith(CriticalLabels))
        /\ scan.summary.warning_count =
               Cardinality(FilesWith(WarningLabels) \ FilesWith(CriticalLabels))
        /\ scan.summary.zombie_count = Cardinality(FilesWith({"zombie"}))
        /\ scan.summary.reclaimable = BytesOf(FilesWith({"zombie"}))
        /\ scan.summary.stale_reclaimable =
               BytesOf(FilesWith({"stale", "ancient"}))

(* both agents hold sessions, and the first lists a small zombie before a  *)
(* large one                                                               *)
C23_Witness ==
    /\ pc = "summary"
    /\ Len(corpus[1]) = 2
    /\ Len(corpus[2]) = 1
    /\ corpus[1][1].size_bytes < corpus[1][2].size_bytes
    /\ scan.summary.zombie_count = 2
    /\ scan.summary.warning_count = 1
    /\ scan.summary.issues_count = 3

-----------------------------------------------------------------------------
(* a session file without events, read to its end: no line at all, or     *)
(* blank lines only, and no failure of open() or of the read               *)
NoEvents ==
    /\ \A i \in 1..Len(file) : file[i] = Blank
    /\ pos = Len(file)
    /\ stats.error_detail = NoExc

AllCountersZero ==
    /\ stats.messages = 0
    /\ stats.user_messages = 0
    /\ stats.assistant_messages = 0
    /\ stats.tool_calls = 0
    /\ stats.compactions = 0
    /\ stats.model_changes = 0
    /\ stats.errors = 0
    /\ stats.models_used = {}
    /\ stats.first_timestamp = None
    /\ stats.last_timestamp = None
    /\ stats.created = None

-----------------------------------------------------------------------------
(* cmd_clean, lines 622-701, and its arguments, lines 1255-1264.           *)
(* Agents are named by their place in the sorted list of discover_agents,  *)
(* session files by their path.                                            *)

(* an option that was given on the command line; None when it was not *)
Given(v) == [kind |-> "given", v |-> v]

(* the text of --min-size: digits followed by a unit, in any case *)
SizeText(number, unit) == [number |-> number, unit |-> unit]

(* s.strip().upper() on the unit of the text (line 963) *)
Upper(unit) ==
    CASE unit = "b" -> "B"
      [] unit = "k" -> "K"
      [] unit = "kb" -> "KB"
      [] unit = "m" -> "M"
      [] unit = "mb" -> "MB"
      [] unit = "g" -> "G"
      [] unit = "gb" -> "GB"
      [] OTHER -> unit

(* lines 964-965 *)
multipliers ==
    [u \in {"B", "K", "KB", "M", "MB", "G", "GB"} |->
        IF u = "B" THEN 1
        ELSE IF u \in {"K", "KB"} THEN 1024
        ELSE IF u \in {"M", "MB"} THEN 1024 * 1024
        ELSE 1024 * 1024 * 1024]

(* lines 961-969: the suffixes are tried longest first, so the whole unit  *)
(* is the one that matches; text without a unit is int(s); any other unit  *)
(* makes int(s) raise ValueError                                           *)
parse_size(s) ==
    LET u == Upper(s.unit) IN
    IF u \in DOMAIN multipliers
    THEN [raised |-> FALSE, value |-> s.number * multipliers[u]]
    ELSE IF u = "" THEN [raised |-> FALSE, value |-> s.number]
    ELSE [raised |-> TRUE, value |-> 0]

(* a selection that takes every session *)
should_cleanEverySession(args, stats_, labels, now_) ==
    [raised |-> FALSE, value |-> TRUE, reason |-> "zombie"]

(* lines 638-655: the three criteria of one session; a later criterion     *)
(* overwrites the reason of an earlier one.  `now - last` raises TypeError *)
(* on a naive instant, parse_size raises ValueError on an unknown unit.    *)
should_clean(args, stats_, labels, now_) ==
    LET zombie == args.zombies /\ AnyLabel(labels, "ghost")
        days == args.stale_days # None /\ args.stale_days.v # 0
        last == LastActivity(stats_)
        stale == days /\ last # None
                      /\ now_ - last.t > args.stale_days.v * DAY
        sized == args.min_size # None
        threshold == parse_size(args.min_size.v)
        big == sized /\ stats_.size_bytes > threshold.value
    IN IF days /\ last # None /\ last.kind = "naive"
       THEN [raised |-> TRUE, value |-> FALSE, reason |-> ""]
       ELSE IF sized /\ threshold.raised
       THEN [raised |-> TRUE, value |-> FALSE, reason |-> ""]
       ELSE [raised |-> FALSE,
             value |-> zombie \/ stale \/ big,
             reason |-> IF big THEN "oversized"
                        ELSE IF stale THEN "stale"
                        ELSE IF zombie THEN "zombie" ELSE ""]

(* the loop of lines 634-663 from session i on: no try surrounds the       *)
(* calls, so an exception of any of them leaves cmd_clean                  *)
RECURSIVE CleanLoop(_, _, _, _, _, _)
CleanLoop(acc, sessions, i, agent, args, now_) ==
    IF i > Len(sessions) THEN acc
    ELSE
      LET a == analyze_session(sessions[i]) IN
      IF a.raised THEN [acc EXCEPT !.raised = TRUE]
      ELSE
        LET c == classify_session(a.stats, now_) IN
        IF c.raised THEN [acc EXCEPT !.raised = TRUE]
        ELSE
          LET d == should_clean(args, a.stats, c.labels, now_) IN
          IF d.raised THEN [acc EXCEPT !.raised = TRUE]
          ELSE CleanLoop(
                 IF d.value
                 THEN [acc EXCEPT !.targets =
                          Append(@, [agent |-> agent,
                                     file |-> sessions[i].path,
                                     size_bytes |-> a.stats.size_bytes,
                                     reason |-> d.reason])]
                 ELSE acc,
                 sessions, i + 1, agent, args, now_)

(* str.strip() and str.lower() on the answer typed at the prompt (line     *)
(* 686), a text given as its characters                                    *)
Strip(a) ==
    LET ink == {i \in 1..Len(a) : a[i] \notin {" ", "\t"}} IN
    IF ink = {} THEN <<>>
    ELSE SubSeq(a, CHOOSE i \in ink : \A j \in ink : i <= j,
                   CHOOSE i \in ink : \A j \in ink : i >= j)
Lower(a) ==
    [i \in 1..Len(a) |->
        CASE a[i] = "Y" -> "y"
          [] a[i] = "N" -> "n"
          [] a[i] = "E" -> "e"
          [] a[i] = "S" -> "s"
          [] OTHER -> a[i]]

(* what the user may type *)
Answers ==
    {<<"y">>, <<"Y">>, <<" ", "y", " ">>, <<"y", "e", "s">>, <<"n">>, <<>>}

(* the command lines: --agent, --zombies, --stale-days, --min-size, and    *)
(* dry_run, which --execute stores as False and which defaults to True     *)
CleanArgs ==
    [agent : {None, Given(2)},
     zombies : BOOLEAN,
     stale_days : {None, Given(0), Given(3)},
     min_size : {None, Given(SizeText(2, "k")), Given(SizeText(1, "MB")),
                 Given(SizeText(1, "x"))},
     dry_run : BOOLEAN]

DeletedZombieFile ==
    Deleted(SessionFile(8, 2 * BLOAT_SIZE_BYTES, MTime, <<Entry("session", TsZ(T0))>>))

CleanPool == {HealthyFile, WarningFile, ZombieFile, NaiveFile, DeletedZombieFile}

CleanCorpora ==
    UNION {{<<SubSeq(l, 1, k), SubSeq(l, k + 1, Len(l))>> : k \in 0..Len(l)} :
               l \in Listings(CleanPool, MaxSessions)}

InitClean ==
    /\ corpus \in CleanCorpora
    /\ \E args \in CleanArgs :
         clean = [run |-> TRUE, args |-> args, agent |-> 1, targets |-> <<>>,
                  asked |-> FALSE, answer |-> <<>>, archive_dir |-> FALSE,
                  moved |-> {}, next |-> 1]
    /\ pc = "clean"
    /\ now = RefNow
    /\ file = <<>>
    /\ pos = 0
    /\ stats = NotRun
    /\ result = NoResult
    /\ scan = NotRun
    /\ disk = NotRun
    /\ hist = NotRun

(* one turn of `for agent in agents` (lines 630-663) *)
CleanAgent ==
    /\ pc = "clean"
    /\ clean.agent <= Len(corpus)
    /\ IF clean.args.agent # None /\ clean.agent # clean.args.agent.v
       THEN /\ pc' = "clean"
            /\ clean' = [clean EXCEPT !.agent = @ + 1]
       ELSE LET sessions == scan_sessions(corpus[clean.agent], FALSE)
                r == CleanLoop([targets |-> clean.targets, raised |-> FALSE],
                               sessions, 1, clean.agent, clean.args, now)
            IN IF r.raised
               THEN /\ pc' = "crashed"
                    /\ clean' = [clean EXCEPT !.targets = r.targets]
               ELSE /\ pc' = "clean"
                    /\ clean' = [clean EXCEPT !.agent = @ + 1,
                                              !.targets = r.targets]
    /\ UNCHANGED <<now, corpus, scan, disk, hist>>
    /\ UNCHANGED sessionvars

(* after the last agent: nothing to clean (lines 665-667), or the plan     *)
(* and, in a dry run, its closing lines (669-684)                          *)
CleanPlan ==
    /\ pc = "clean"
    /\ clean.agent > Len(corpus)
    /\ pc' = IF clean.targets = <<>> THEN "done"
             ELSE IF clean.args.dry_run THEN "done"
             ELSE "confirm"
    /\ UNCHANGED <<now, corpus, scan, disk, hist, clean>>
    /\ UNCHANGED sessionvars

(* lines 685-692: the prompt; any answer but y cancels, y makes the        *)
(* archive directory                                                       *)
CleanConfirm ==
    /\ pc = "confirm"
    /\ \E a \in Answers :
         LET confirm == Lower(Strip(a)) IN
         IF confirm # <<"y">>
         THEN /\ pc' = "done"
              /\ clean' = [clean EXCEPT !.asked = TRUE, !.answer = a]
         ELSE /\ pc' = "moving"
              /\ clean' = [clean EXCEPT !.asked = TRUE, !.answer = a,
                                        !.archive_dir = TRUE]
    /\ UNCHANGED <<now, corpus, scan, disk, hist>>
    /\ UNCHANGED sessionvars

(* one turn of `for t in targets` (lines 694-696): shutil.move *)
CleanMove ==
    /\ pc = "moving"
    /\ clean.next <= Len(clean.targets)
    /\ clean' = [clean EXCEPT !.moved = @ \cup {clean.targets[clean.next].file},
                              !.next = @ + 1]
    /\ pc' = IF clean.next = Len(clean.targets) THEN "done" ELSE "moving"
    /\ UNCHANGED <<now, corpus, scan, disk, hist>>
    /\ UNCHANGED sessionvars

NextClean == CleanAgent \/ CleanPlan \/ CleanConfirm \/ CleanMove

SpecClean == InitClean /\ [][NextClean]_vars

-----------------------------------------------------------------------------
(* Vocabulary of the cleanup property *)

Moved(sf) == sf.path \in clean.moved
Executing == ~clean.args.dry_run
ZombieEnabled == clean.args.zombies
StaleEnabled == clean.args.stale_days # None
SizeEnabled == clean.args.min_size # None
NoCriterion == ~ZombieEnabled /\ ~StaleEnabled /\ ~SizeEnabled

(* the file matches a criterion that is enabled *)
Matches(sf) ==
    \/ ZombieEnabled /\ \E k \in 1..Len(LabelsOf(sf)) : LabelsOf(sf)[k] = "zombie"
    \/ StaleEnabled
         /\ now - LastActivity(analyze_session(sf).stats).t
               > clean.args.stale_days.v * DAY
    \/ SizeEnabled
         /\ sf.size_bytes > parse_size(clean.args.min_size.v).value

NothingTouched == clean.moved = {} /\ ~clean.archive_dir

(* C25 as stated: cmd_clean moves a session file only when it was started  *)
(* with --execute, the file matched an enabled criterion and the answer    *)
(* was exactly y; in a dry run, with no criterion enabled, or after any    *)
(* other answer, every file stays and no archive directory is made.        *)
C25_MovesOnlyAfterExactY ==
    /\ \A sf \in CorpusFiles :
         Moved(sf) => /\ Executing
                      /\ Matches(sf)
                      /\ clean.asked /\ clean.answer = <<"y">>
    /\ (~Executing \/ NoCriterion \/ (clean.asked /\ clean.answer # <<"y">>))
         => NothingTouched

(* C25 amended: cmd_clean moves a session file only when it was started    *)
(* with --execute, the file matched an enabled criterion and the answer,   *)
(* stripped of surrounding blanks and lower-cased, was y; in a dry run,    *)
(* with no criterion enabled, or after an answer that is not y once        *)
(* stripped and lower-cased, every file stays and no archive directory is  *)
(* made.                                                                   *)
C25_MovesOnlyAfterYes ==
    /\ \A sf \in CorpusFiles :
         Moved(sf) => /\ Executing
                      /\ Matches(sf)
                      /\ clean.asked /\ Lower(Strip(clean.answer)) = <<"y">>
    /\ (~Executing \/ NoCriterion
          \/ (clean.asked /\ Lower(Strip(clean.answer)) # <<"y">>))
         => NothingTouched

C25_Witness ==
    /\ pc = "done"
    /\ clean.answer = <<" ", "y", " ">>
    /\ clean.archive_dir
    /\ \E sf \in CorpusFiles : Moved(sf)
    /\ \E sf \in CorpusFiles : ~sf.deleted /\ ~Moved(sf)

====
